---- MODULE Spec2Model ----
(***************************************************************************)
(* Model of the ingestion-to-analysis pipeline of src/main.go:             *)
(* the bounded admission channel (Service.metricsCh), the HTTP handlers    *)
(* handleIngest and handleAnalyze, the worker goroutines (Service.worker)  *)
(* and the two Redis keys they share (rps_window, last_analysis).          *)
(*                                                                         *)
(* Every Redis round trip of a worker is one atomic step; the goroutines   *)
(* interleave between round trips, as they do in the program.  A Redis     *)
(* call either takes effect and returns nil, or returns an error and       *)
(* leaves the store as it was.                                             *)
(*                                                                         *)
(* float64 values are modelled bit for bit: a finite float64 is a sign, an  *)
(* odd significand and a binary exponent, and every arithmetic operation   *)
(* rounds its exact result to 53 bits, to nearest, ties to even.  Decimal  *)
(* texts (JSON numbers, Redis list entries) are sequences of characters.   *)
(***************************************************************************)
EXTENDS Integers, Sequences, FiniteSets, TLC

(* ------------------------------ bounds -------------------------------- *)

\* capacity of metricsCh (10_000 in the program), scaled down
QueueCap == 2

\* length of the sliding window (50 in the program), scaled down
windowSize == 2

\* number of /ingest requests served in one behaviour
MaxRequests == 3

\* number of /ingest requests that may be in flight at the same time
NumHandlers == 1

\* length of the longest window the statistics are applied to on their own
MaxSnapshot == 5

(* ------------------------- program constants -------------------------- *)

zThreshold == 2

NumWorkers == 2

\* the width of the significand of a float64
MantissaBits == 53

\* the limbs of the model's big naturals
LimbBits == 15

LimbBase == 32768

Workers == 1..NumWorkers

Handlers == 1..NumHandlers

\* the values time.Now().Unix() may return
NowValues == {7}

\* request bodies: one that does not decode, and well-formed samples; the
\* JSON numbers of cpu and rps are decimal texts
BadBody == [ok |-> FALSE, Timestamp |-> 0, CPU |-> <<>>, RPS |-> <<>>]

GoodBodies ==
    { [ok |-> TRUE, Timestamp |-> 0, CPU |-> <<"1", "2">>, RPS |-> <<"1", "0">>],
      [ok |-> TRUE, Timestamp |-> 5, CPU |-> <<"3", "4">>, RPS |-> <<"2", "0">>] }

Bodies == {BadBody} \cup GoodBodies

\* a sample far from the others
OutlierBody ==
    [ok |-> TRUE, Timestamp |-> 0, CPU |-> <<"5", "6">>, RPS |-> <<"1", "0", "0", "0">>]

SampleBodies == GoodBodies \cup {OutlierBody}

Methods == {"POST", "GET"}

\* type Metric, lines 18-22
Metric(ts, cpu, rps) == [Timestamp |-> ts, CPU |-> cpu, RPS |-> rps]

(* ------------------------------ helpers ------------------------------- *)

Min(a, b) == IF a < b THEN a ELSE b

(* ---------------------- natural numbers of any size -------------------- *)

\* A natural number is the sequence of its limbs in base LimbBase, least
\* significant first, without a leading zero limb; <<>> is zero.  Carries
\* and borrows are looked ahead, limb by limb, not propagated in a loop.

SetMax(S) == CHOOSE i \in S : \A j \in S : j <= i

SetMin(S) == CHOOSE i \in S : \A j \in S : i <= j

\* the limb of weight LimbBase^(i-1), zero beyond the most significant one
Limb(a, i) == IF i >= 1 /\ i <= Len(a) THEN a[i] ELSE 0

NatTrim(a) ==
    LET nz == {i \in 1..Len(a) : a[i] # 0}
    IN  IF nz = {} THEN <<>> ELSE SubSeq(a, 1, SetMax(nz))

NatFromInt(n) ==
    NatTrim(<<n % LimbBase, (n \div LimbBase) % LimbBase,
              n \div (LimbBase * LimbBase)>>)

\* a + b, for limb sequences with or without leading zero limbs: a carry
\* enters limb i when a limb below overflows and every limb between that
\* one and i is full
NatAdd(a, b) ==
    IF a = <<>> THEN NatTrim(b)
    ELSE IF b = <<>> THEN NatTrim(a)
    ELSE
    LET len   == IF Len(a) > Len(b) THEN Len(a) ELSE Len(b)
        s     == [i \in 1..(len + 1) |-> Limb(a, i) + Limb(b, i)]
        carry == [i \in 1..(len + 1) |->
                    IF \E j \in 1..(i - 1) :
                          /\ s[j] >= LimbBase
                          /\ \A k \in (j + 1)..(i - 1) : s[k] = LimbBase - 1
                    THEN 1 ELSE 0]
    IN  NatTrim([i \in 1..(len + 1) |-> (s[i] + carry[i]) % LimbBase])

\* a - b for a >= b: a borrow leaves limb i when a limb below falls short
\* and every limb between that one and i is zero
NatSub(a, b) ==
    IF b = <<>> THEN a
    ELSE
    LET d      == [i \in 1..Len(a) |-> a[i] - Limb(b, i)]
        borrow == [i \in 1..Len(a) |->
                     IF \E j \in 1..(i - 1) :
                           /\ d[j] < 0
                           /\ \A k \in (j + 1)..(i - 1) : d[k] = 0
                     THEN 1 ELSE 0]
    IN  NatTrim([i \in 1..Len(a) |-> (d[i] - borrow[i]) % LimbBase])

\* -1, 0, 1 as a < b, a = b, a > b
NatCmp(a, b) ==
    IF Len(a) < Len(b) THEN -1
    ELSE IF Len(a) > Len(b) THEN 1
    ELSE LET differ == {i \in 1..Len(a) : a[i] # b[i]}
         IN  IF differ = {} THEN 0
             ELSE IF a[SetMax(differ)] < b[SetMax(differ)] THEN -1 ELSE 1

\* a * d for one limb d: the low halves of the limb products, plus their
\* high halves one limb up
NatMulLimb(a, d) ==
    IF a = <<>> \/ d = 0 THEN <<>>
    ELSE NatAdd([i \in 1..Len(a) |-> (a[i] * d) % LimbBase],
                <<0>> \o [i \in 1..Len(a) |-> (a[i] * d) \div LimbBase])

\* the sum of the halves of the limb products a[i] * b[j] that have the
\* weight LimbBase^(k-1): the low ones with i + j = k + 1 from i on, and
\* the high ones with i + j = k
RECURSIVE NatMulColumn(_, _, _, _)
NatMulColumn(a, b, k, i) ==
    IF i > Len(a) THEN 0
    ELSE ((Limb(a, i) * Limb(b, k + 1 - i)) % LimbBase)
         + ((Limb(a, i) * Limb(b, k - i)) \div LimbBase)
         + NatMulColumn(a, b, k, i + 1)

NatMul(a, b) ==
    IF a = <<>> \/ b = <<>> THEN <<>>
    ELSE LET col == [k \in 1..(Len(a) + Len(b)) |-> NatMulColumn(a, b, k, 1)]
         IN  NatAdd([k \in 1..(Len(a) + Len(b)) |-> col[k] % LimbBase],
                    <<0>> \o [k \in 1..(Len(a) + Len(b)) |-> col[k] \div LimbBase])

\* a * 2^k
NatShl(a, k) ==
    LET q == k \div LimbBits
        p == 2 ^ (k % LimbBits)
    IN  NatTrim([i \in 1..(Len(a) + q + 1) |->
                    IF i <= q THEN 0
                    ELSE ((Limb(a, i - q) * p) % LimbBase)
                         + ((Limb(a, i - q - 1) * p) \div LimbBase)])

\* floor(a / 2^k)
NatShr(a, k) ==
    LET q == k \div LimbBits
        p == 2 ^ (k % LimbBits)
    IN  IF q >= Len(a) THEN <<>>
        ELSE NatTrim([i \in 1..(Len(a) - q) |->
                        (a[i + q] \div p)
                        + ((Limb(a, i + q + 1) % p) * (LimbBase \div p))])

\* the number of bits of one limb
IntBitLen(n) == CHOOSE k \in 0..LimbBits : n < 2 ^ k /\ (k = 0 \/ n >= 2 ^ (k - 1))

NatBitLen(a) ==
    IF a = <<>> THEN 0 ELSE LimbBits * (Len(a) - 1) + IntBitLen(a[Len(a)])

\* the number of trailing zero bits of one limb n > 0
IntTrailingZeros(n) ==
    CHOOSE k \in 0..(LimbBits - 1) : n % (2 ^ k) = 0 /\ n % (2 ^ (k + 1)) # 0

\* number of trailing zero bits of a > 0
NatTrailingZeros(a) ==
    LET low == SetMin({i \in 1..Len(a) : a[i] # 0})
    IN  LimbBits * (low - 1) + IntTrailingZeros(a[low])

NatIsOdd(a) == a # <<>> /\ Head(a) % 2 = 1

\* floor(r / d) for r < d * LimbBase and d with its top bit set: the
\* estimate from the leading limbs is at most two above the quotient
NatQuoLimb(r, d) ==
    IF NatCmp(r, d) < 0 THEN 0
    ELSE LET lead == IF Len(r) > Len(d)
                     THEN r[Len(r)] * LimbBase + r[Len(r) - 1]
                     ELSE r[Len(r)]
             est  == IF lead \div d[Len(d)] < LimbBase
                     THEN lead \div d[Len(d)] ELSE LimbBase - 1
         IN  SetMax({q \in (est - 2)..est :
                        q >= 0 /\ NatCmp(NatMulLimb(d, q), r) <= 0})

\* long division of the limbs n[1..i] brought down onto the remainder r,
\* after the quotient limbs quo
RECURSIVE NatDivModStep(_, _, _, _, _)

\* the quotient limb q of the partial remainder r goes in front of quo, and
\* the division goes on below limb i with what q leaves of r
NatDivModPut(n, d, i, r, q, quo) ==
    IF q = 0 THEN NatDivModStep(n, d, i - 1, r, <<0>> \o quo)
    ELSE NatDivModStep(n, d, i - 1, NatSub(r, NatMulLimb(d, q)), <<q>> \o quo)

\* limb i of n is brought down onto the remainder r
NatDivModDown(n, d, i, r, quo) == NatDivModPut(n, d, i, r, NatQuoLimb(r, d), quo)

NatDivModStep(n, d, i, r, quo) ==
    IF i = 0 THEN [quo |-> quo, rem |-> r]
    ELSE NatDivModDown(n, d, i, NatTrim(<<n[i]>> \o r), quo)

\* the division of ns by ds, which has its top bit set and no more limbs
\* than ns: it starts below the limbs of ns that are fewer than those of ds
NatDivModLimbs(ns, ds) ==
    NatDivModStep(ns, ds, Len(ns) - Len(ds) + 1,
                  NatTrim(SubSeq(ns, Len(ns) - Len(ds) + 2, Len(ns))), <<>>)

\* the quotient and the remainder qr of a division shifted by sh bits
NatDivModUnshift(qr, sh) == [quo |-> NatTrim(qr.quo), rem |-> NatShr(qr.rem, sh)]

\* n and d shifted by sh bits, which sets the top bit of d
NatDivModShift(n, d, sh) ==
    NatDivModUnshift(NatDivModLimbs(NatShl(n, sh), NatShl(d, sh)), sh)

\* quotient and remainder of n by d > 0
NatDivMod(n, d) ==
    IF Len(n) < Len(d) THEN [quo |-> <<>>, rem |-> n]
    ELSE NatDivModShift(n, d, LimbBits - IntBitLen(d[Len(d)]))

\* Newton's iteration from x >= floor(sqrt(n)) down to floor(sqrt(n))
RECURSIVE NatSqrtStep(_, _)

\* y is the step after x: the iteration ends when it no longer falls
NatSqrtNext(n, x, y) == IF NatCmp(y, x) >= 0 THEN x ELSE NatSqrtStep(n, y)

NatSqrtStep(n, x) ==
    NatSqrtNext(n, x, NatShr(NatAdd(x, NatDivMod(n, x).quo), 1))

\* floor of the square root of t, 0 < t < LimbBase^2, from x >= floor(sqrt(t))
RECURSIVE IntSqrtStep(_, _)
IntSqrtStep(t, x) ==
    IF (x + t \div x) \div 2 >= x THEN x
    ELSE IntSqrtStep(t, (x + t \div x) \div 2)

IntSqrt(t) == IntSqrtStep(t, LimbBase)

\* floor of the square root of n > 0: Newton's iteration starts right above
\* the square root of the leading bits of n
NatSqrt(n) ==
    LET len == NatBitLen(n)
        sh  == IF len <= 2 * LimbBits THEN 0
               ELSE 2 * ((len - 2 * LimbBits + 1) \div 2)
        top == NatShr(n, sh)
        t   == Limb(top, 1) + LimbBase * Limb(top, 2)
    IN  NatSqrtStep(n, NatShl(NatFromInt(IntSqrt(t) + 1), sh \div 2))

(* ------------------------------- float64 ------------------------------ *)

\* A finite float64 is (-1)^neg * man * 2^exp with man odd, or zero.  Every
\* operation returns the exact result rounded to MantissaBits bits, to
\* nearest, ties to even, as the hardware does for the Go operators and for
\* math.Sqrt.  Exponent overflow and underflow are not modelled.

F64(neg, man, exp) == [neg |-> neg, man |-> man, exp |-> exp]

F64Zero == F64(FALSE, <<>>, 0)

F64Norm(neg, man, exp) ==
    IF man = <<>> THEN F64Zero
    ELSE LET tz == NatTrailingZeros(man)
         IN  F64(neg, NatShr(man, tz), exp + tz)

\* g holds the bits to keep and, lowest, the first bit to drop; more says
\* that something nonzero is dropped below it.  One is added at the lowest
\* bit when more, or when the last bit kept is odd: the sum carries into
\* the bits kept exactly when they round up
F64Nudge(g, more) ==
    IF more \/ (Head(g) \div 2) % 2 = 1 THEN NatAdd(g, <<1>>) ELSE g

\* round man * 2^exp (plus a positive fraction of its last bit when sticky)
\* to MantissaBits bits, to nearest, ties to even
F64Round(neg, man, exp, sticky) ==
    LET r == NatBitLen(man) - MantissaBits
    IN  IF r <= 0 THEN F64Norm(neg, man, exp)
        ELSE F64Norm(neg,
                     NatShr(F64Nudge(NatShr(man, r - 1),
                                     sticky \/ NatTrailingZeros(man) < r - 1), 1),
                     exp + r)

F64FromInt(n) == F64Norm(n < 0, NatFromInt(IF n < 0 THEN -n ELSE n), 0)

F64Neg(a) == IF a.man = <<>> THEN a ELSE F64(~a.neg, a.man, a.exp)

F64Abs(a) == F64(FALSE, a.man, a.exp)

F64Add(a, b) ==
    LET e  == IF a.exp < b.exp THEN a.exp ELSE b.exp
        ma == NatShl(a.man, a.exp - e)
        mb == NatShl(b.man, b.exp - e)
    IN  F64Round(IF a.neg = b.neg \/ NatCmp(ma, mb) >= 0 THEN a.neg ELSE b.neg,
                 IF a.neg = b.neg THEN NatAdd(ma, mb)
                 ELSE IF NatCmp(ma, mb) >= 0 THEN NatSub(ma, mb)
                 ELSE NatSub(mb, ma),
                 e, FALSE)

F64Sub(a, b) == F64Add(a, F64Neg(b))

F64Mul(a, b) == F64Round(a.neg # b.neg, NatMul(a.man, b.man), a.exp + b.exp, FALSE)

\* a / b for b # 0
\* the quotient of qr rounded, sticky when the division left a remainder
F64Quo(neg, qr, exp) == F64Round(neg, qr.quo, exp, qr.rem # <<>>)

F64Div(a, b) ==
    IF a.man = <<>> THEN F64Zero
    ELSE LET k == MantissaBits + 2 + NatBitLen(b.man) - NatBitLen(a.man)
         IN  F64Quo(a.neg # b.neg, NatDivMod(NatShl(a.man, k), b.man),
                    a.exp - k - b.exp)

\* the square root of a >= 0
\* the root s of n rounded, sticky when n is not a square
F64Root(n, s, exp) == F64Round(FALSE, s, exp, NatMul(s, s) # n)

\* the root of n * 2^(2 * exp)
F64SqrtScaled(n, exp) == F64Root(n, NatSqrt(n), exp)

F64Sqrt(a) ==
    IF a.man = <<>> THEN F64Zero
    ELSE LET k0 == 2 * (MantissaBits + 2) - NatBitLen(a.man)
             k  == k0 + ((a.exp - k0) % 2)
         IN  F64SqrtScaled(NatShl(a.man, k), (a.exp - k) \div 2)

\* -1, 0, 1 as a < 0, a = 0, a > 0
F64Sign(a) == IF a.man = <<>> THEN 0 ELSE IF a.neg THEN -1 ELSE 1

\* -1, 0, 1 as a < b, a = b, a > b
F64Cmp(a, b) == F64Sign(F64Sub(a, b))

(* ---------------------------- decimal texts --------------------------- *)

Digits == <<"0", "1", "2", "3", "4", "5", "6", "7", "8", "9">>

IsDigit(c) == \E i \in 1..10 : Digits[i] = c

DigitValue(c) == (CHOOSE i \in 1..10 : Digits[i] = c) - 1

\* the number a sequence of digits denotes, after the digits of acc
RECURSIVE DigitsValue(_, _)
DigitsValue(ds, acc) ==
    IF ds = <<>> THEN acc
    ELSE DigitsValue(Tail(ds), 10 * acc + DigitValue(Head(ds)))

RECURSIVE Pow10(_)
Pow10(k) == IF k = 0 THEN 1 ELSE 10 * Pow10(k - 1)

\* the position of the first decimal point of text, 0 when it has none
PointAt(text) ==
    IF \E i \in 1..Len(text) : text[i] = "."
    THEN CHOOSE i \in 1..Len(text) :
            text[i] = "." /\ \A j \in 1..(i - 1) : text[j] # "."
    ELSE 0

\* strconv.ParseFloat(text, 64) over the texts digits[.digits]: the float64
\* nearest to the decimal; any other text is a syntax error
ParseFloat(text) ==
    LET p     == PointAt(text)
        whole == IF p = 0 THEN text ELSE SubSeq(text, 1, p - 1)
        frac  == IF p = 0 THEN <<>> ELSE SubSeq(text, p + 1, Len(text))
    IN  IF /\ whole # <<>>
           /\ p # 0 => frac # <<>>
           /\ \A i \in 1..Len(whole) : IsDigit(whole[i])
           /\ \A i \in 1..Len(frac) : IsDigit(frac[i])
        THEN [err |-> FALSE,
              f   |-> F64Div(F64FromInt(DigitsValue(whole \o frac, 0)),
                             F64FromInt(Pow10(Len(frac))))]
        ELSE [err |-> TRUE, f |-> F64Zero]

\* the decimal texts of the model: those of the request bodies and those
\* of the windows the statistics are applied to on their own
SampleTexts == {b.RPS : b \in SampleBodies} \cup {b.CPU : b \in SampleBodies}

StatTexts == {<<"0">>, <<"2", "1">>, <<"0", ".", "1">>}

Texts == SampleTexts \cup StatTexts

\* ParseFloat over the texts of the model, computed once
Parsed == [t \in Texts |-> ParseFloat(t)]

\* the float64 a JSON number decodes to (encoding/json uses ParseFloat)
DecodeFloat(text) == Parsed[text].f

\* strconv.AppendFloat(v, 'f', -1, 64), which go-redis applies to a float64
\* argument: the shortest decimal that parses back to v
Shortest(S) == CHOOSE t \in S : \A u \in S : Len(t) <= Len(u)

FormatFloat(v) == Shortest({t \in Texts : Parsed[t] = [err |-> FALSE, f |-> v]})

NoMetric == Metric(0, F64Zero, F64Zero)

(* ------------------------ the Redis list commands ---------------------- *)

\* LPUSH key v: v becomes the head of the list
RedisLPush(list, v) == <<v>> \o list

\* the elements at the 0-based inclusive indexes start..stop, 0 <= start
RedisSlice(list, start, stop) ==
    SubSeq(list, start + 1, Min(stop + 1, Len(list)))

\* LTRIM key start stop
RedisLTrim(list, start, stop) == RedisSlice(list, start, stop)

\* LRANGE key start stop
RedisLRange(list, start, stop) == RedisSlice(list, start, stop)

(* ------------------------ the statistics (4.3) ------------------------- *)

\* lines 111-120: the entries of the snapshot that parse, in order
\* lines 113-116: an entry that does not parse is skipped
Parses(p) == IF p.err THEN <<>> ELSE <<p.f>>

RECURSIVE ParseValues(_)
ParseValues(entries) ==
    IF entries = <<>> THEN <<>>
    ELSE Parses(Parsed[Head(entries)]) \o ParseValues(Tail(entries))

\* lines 112-120: sum += f, entry by entry
RECURSIVE Sum(_)
Sum(nums) ==
    IF nums = <<>> THEN F64Zero
    ELSE F64Add(Sum(SubSeq(nums, 1, Len(nums) - 1)), nums[Len(nums)])

\* lines 122-126: mean = sum / float64(count), 0.0 for an empty window
Mean(nums) ==
    IF Len(nums) > 0 THEN F64Div(Sum(nums), F64FromInt(Len(nums)))
    ELSE F64Zero

\* lines 127-131: d := x - mean; variance += d * d, entry by entry
Square(d) == F64Mul(d, d)

RECURSIVE SqDev(_, _)
SqDev(nums, mean) ==
    IF nums = <<>> THEN F64Zero
    ELSE F64Add(SqDev(SubSeq(nums, 1, Len(nums) - 1), mean),
                Square(F64Sub(nums[Len(nums)], mean)))

\* lines 127-132: variance /= float64(count)
Variance(nums, mean) ==
    IF Len(nums) > 0 THEN F64Div(SqDev(nums, mean), F64FromInt(Len(nums)))
    ELSE F64Zero

\* line 133: stddev = math.Sqrt(variance)
StdDev(nums, mean) == F64Sqrt(Variance(nums, mean))

\* lines 136-139: z = (m.RPS - mean) / stddev when count > 1 and stddev > 0
ZScore(count, rps, mean, stddev) ==
    IF count > 1 /\ F64Cmp(stddev, F64Zero) > 0
    THEN F64Div(F64Sub(rps, mean), stddev)
    ELSE F64Zero

\* line 140: math.Abs(z) > zThreshold
IsAnomaly(z) == F64Cmp(F64Abs(z), F64FromInt(zThreshold)) > 0

\* lines 111-140: the statistics of a snapshot and of the sample's rps, in
\* the order the program computes them
StatisticsZ(count, mean, stddev, z) ==
    [Count      |-> count,
     RollingAvg |-> mean,
     StdDev     |-> stddev,
     ZScore     |-> z,
     IsAnomaly  |-> IsAnomaly(z)]

StatisticsStdDev(count, rps, mean, stddev) ==
    StatisticsZ(count, mean, stddev, ZScore(count, rps, mean, stddev))

StatisticsMean(nums, rps, mean) ==
    StatisticsStdDev(Len(nums), rps, mean, StdDev(nums, mean))

StatisticsNums(nums, rps) == StatisticsMean(nums, rps, Mean(nums))

Statistics(entries, rps) == StatisticsNums(ParseValues(entries), rps)

\* the snapshots LRANGE can return and the samples a worker can hold in the
\* pipeline
RpsTexts == {b.RPS : b \in SampleBodies}

Snapshots == UNION {[1..n -> RpsTexts] : n \in 0..windowSize}

\* their statistics, tabulated once (the union with the empty function
\* makes the table explicit)
StatisticsOf ==
    [v \in Snapshots, t \in RpsTexts |-> Statistics(v, DecodeFloat(t))] @@ <<>>

\* lines 111-154: the Analysis a worker builds from its snapshot and its sample
\* lines 142-154: the Analysis of the statistics s and of the sample
AnalysisOf(s, metric, now) ==
    [Count      |-> s.Count,
     WindowSize |-> windowSize,
     RollingAvg |-> s.RollingAvg,
     StdDev     |-> s.StdDev,
     ZScore     |-> s.ZScore,
     IsAnomaly  |-> s.IsAnomaly,
     LastRPS    |-> metric.RPS,
     LastCPU    |-> metric.CPU,
     LastTs     |-> metric.Timestamp,
     ThresholdZ |-> F64FromInt(zThreshold),
     ComputedAt |-> now]

\* lines 111-154: the Analysis a worker builds from its snapshot and its sample
ComputeAnalysis(entries, metric, now) ==
    AnalysisOf(IF entries \in Snapshots /\ metric.RPS \in {DecodeFloat(t) : t \in RpsTexts}
               THEN StatisticsOf[entries, FormatFloat(metric.RPS)]
               ELSE Statistics(entries, metric.RPS),
               metric, now)

\* the statistics of the empty snapshot
NoStatistics ==
    [Count |-> 0, RollingAvg |-> F64Zero, StdDev |-> F64Zero, ZScore |-> F64Zero,
     IsAnomaly |-> FALSE]

\* what a worker holds for an Analysis before it has computed one
NoAnalysis == AnalysisOf(NoStatistics, NoMetric, 0)

\* json.Marshal(anal): the fields under their JSON names, in struct order
Marshal(a) ==
    << <<"count", a.Count>>, <<"windowSize", a.WindowSize>>,
       <<"rollingAvg", a.RollingAvg>>, <<"stdDev", a.StdDev>>,
       <<"zScore", a.ZScore>>, <<"isAnomaly", a.IsAnomaly>>,
       <<"lastRps", a.LastRPS>>, <<"lastCpu", a.LastCPU>>,
       <<"lastTimestamp", a.LastTs>>, <<"thresholdZ", a.ThresholdZ>>,
       <<"computedAt", a.ComputedAt>> >>

\* the reply of GET on a key that was never set (redis.Nil)
RedisNil == <<>>

(* ------------------------------- state -------------------------------- *)

VARIABLES
    metricsCh,          \* Service.metricsCh: the buffered channel; each entry
                        \* is a sample and, as history, its admission number
    window,             \* Redis list rps_window, head first
    lastAnalysis,       \* Redis string last_analysis, RedisNil when unset
    ingestTotal,        \* counter ingest_requests_total
    ingestLatency,      \* histogram ingest_latency_seconds: observations
    currentRollingAvg,  \* gauge rolling_avg_rps
    anomalyTotal,       \* counter anomalies_total
    anomalyRate,        \* gauge anomaly_rate
    pc,                 \* per worker: the statement it is about to execute
    m,                  \* per worker: the sample of the current iteration
    values,             \* per worker: the snapshot LRANGE returned
    anal,               \* per worker: the Analysis it computed
    hpc,                \* per handler goroutine of /ingest: idle or sent
    lastIngest,         \* the answer /ingest wrote in the step just taken
    analyzeResp,        \* the answer /analyze wrote in the step just taken
    stalled,            \* the workers whose store call never returns
    started,            \* history: /ingest requests begun
    admitted,           \* history: number of samples sent on metricsCh
    dequeued,           \* history: number of samples received from it
    pushes,             \* history: number of LPUSHes that took effect
    recent,             \* history: the values of the last windowSize of
                        \* them, newest first
    persisted,          \* history: the value of the last SET that took effect
    trimmed,            \* history: some LTRIM has taken effect
    failedHeld,         \* history: per worker, a store call failed for m
    finished,           \* history: number of iterations that have ended
    overtaken,          \* history: per worker, the number of LPUSHes of
                        \* other workers that took effect between its own
                        \* LPUSH and its LRANGE
    untrimmed,          \* history: number of LTRIMs that failed since the
                        \* last LTRIM that took effect
    anomalous           \* history: number of Analyses computed with
                        \* IsAnomaly

store == <<window, lastAnalysis>>

gauges == <<currentRollingAvg, anomalyTotal, anomalyRate>>

locals == <<pc, m, values, anal>>

http == <<hpc, started, ingestTotal, ingestLatency>>

out == <<lastIngest, analyzeResp>>

hist == <<admitted, dequeued, pushes, recent, persisted, trimmed, failedHeld,
          finished, overtaken, untrimmed, anomalous>>

vars == <<metricsCh, store, gauges, locals, http, out, stalled, hist>>

NoExchange == [method |-> "", ok |-> FALSE, status |-> 0]

NoResp == [method |-> "", ok |-> FALSE, status |-> 0, body |-> RedisNil]

\* a step that writes no HTTP answer
Silent == lastIngest' = NoExchange /\ analyzeResp' = NoResp

\* lines 80-86: NewService, over an empty store
NewService ==
    /\ metricsCh = <<>>
    /\ window = <<>>
    /\ lastAnalysis = RedisNil
    /\ ingestTotal = 0
    /\ ingestLatency = 0
    /\ currentRollingAvg = F64Zero
    /\ anomalyTotal = 0
    /\ anomalyRate = 0
    /\ anal = [w \in Workers |-> NoAnalysis]
    /\ hpc = [h \in Handlers |-> "idle"]
    /\ lastIngest = NoExchange
    /\ analyzeResp = NoResp
    /\ stalled = {}
    /\ started = 0
    /\ admitted = 0
    /\ dequeued = 0
    /\ pushes = 0
    /\ recent = <<>>
    /\ persisted = RedisNil
    /\ trimmed = FALSE
    /\ failedHeld = [w \in Workers |-> FALSE]
    /\ finished = 0
    /\ overtaken = [w \in Workers |-> 0]
    /\ untrimmed = 0
    /\ anomalous = 0

\* lines 88-92: StartWorkers(n) starts the workers 1..n
StartWorkers(n) ==
    /\ pc = [w \in Workers |-> IF w <= n THEN "recv" ELSE "off"]
    /\ m = [w \in Workers |-> NoMetric]
    /\ values = [w \in Workers |-> <<>>]

\* lines 236-237: NewService and StartWorkers(2)
Init == NewService /\ StartWorkers(NumWorkers)

(* ------------------------------ /ingest ------------------------------- *)

Requests == [method : Methods, body : Bodies]

\* the handler writes its answer and returns: the deferred Observe of line 173
Answer(method, ok, status) ==
    /\ lastIngest' = [method |-> method, ok |-> ok, status |-> status]
    /\ ingestLatency' = ingestLatency + 1

\* the buffer taken to hold one entry more than its capacity
CanSendOffByOne(ch) == Len(ch) <= QueueCap

\* lines 82, 189-190: the send case of the select is ready when the buffer
\* of the channel has room
CanSend(ch) == Len(ch) < QueueCap

\* line 190: the sample sent on the channel
Enqueue(ch, metric, seq) == Append(ch, [metric |-> metric, seq |-> seq])

\* lines 171-197, up to and including the select: handler goroutine h serves
\* request r.  A request that is not admitted is answered in the same step;
\* an admitted one is answered by IngestAccepted.
HandleIngest(h, r) ==
    /\ hpc[h] = "idle"
    /\ started < MaxRequests
    /\ started' = started + 1
    /\ analyzeResp' = NoResp
    /\ UNCHANGED <<store, gauges, locals, stalled, ingestTotal>>
    /\ UNCHANGED <<dequeued, pushes, recent, persisted, trimmed, failedHeld, finished>>
    /\ UNCHANGED <<overtaken, untrimmed, anomalous>>
    /\ IF r.method # "POST"
       THEN /\ Answer(r.method, r.body.ok, 405)
            /\ UNCHANGED <<metricsCh, admitted, hpc>>
       ELSE IF ~r.body.ok
       THEN /\ Answer(r.method, r.body.ok, 400)
            /\ UNCHANGED <<metricsCh, admitted, hpc>>
       ELSE \E now \in NowValues :
            LET ts     == IF r.body.Timestamp = 0 THEN now ELSE r.body.Timestamp
                metric == Metric(ts, DecodeFloat(r.body.CPU), DecodeFloat(r.body.RPS))
            IN  IF CanSend(metricsCh)
                THEN /\ metricsCh' = Enqueue(metricsCh, metric, admitted + 1)
                     /\ admitted' = admitted + 1
                     /\ hpc' = [hpc EXCEPT ![h] = "sent"]
                     /\ lastIngest' = NoExchange
                     /\ UNCHANGED ingestLatency
                ELSE /\ Answer(r.method, r.body.ok, 503)
                     /\ UNCHANGED <<metricsCh, admitted, hpc>>

\* the accepted branch without ingestTotal.Inc()
IngestAcceptedNoInc(h) ==
    /\ hpc[h] = "sent"
    /\ Answer("POST", TRUE, 202)
    /\ hpc' = [hpc EXCEPT ![h] = "idle"]
    /\ analyzeResp' = NoResp
    /\ UNCHANGED <<metricsCh, store, gauges, locals, stalled, started, hist, ingestTotal>>

\* lines 191-194 and the deferred Observe of line 173
IngestAccepted(h) ==
    /\ hpc[h] = "sent"
    /\ ingestTotal' = ingestTotal + 1
    /\ Answer("POST", TRUE, 202)
    /\ hpc' = [hpc EXCEPT ![h] = "idle"]
    /\ analyzeResp' = NoResp
    /\ UNCHANGED <<metricsCh, store, gauges, locals, stalled, started, hist>>

(* ------------------------------ /analyze ------------------------------ *)

\* the reply of GET on last_analysis: the value, or redis.Nil
AnalyzeReply(method, ok) ==
    [method |-> method, ok |-> ok,
     status |-> IF method # "GET" THEN 405
                ELSE IF ~ok THEN 503
                ELSE IF lastAnalysis = RedisNil THEN 204
                ELSE 200,
     body   |-> IF method = "GET" /\ ok THEN lastAnalysis ELSE RedisNil]

\* GETDEL in the place of GET: the read consumes the record
HandleAnalyzeGetDel(method, ok) ==
    /\ analyzeResp' = AnalyzeReply(method, ok)
    /\ lastAnalysis' = IF method = "GET" /\ ok THEN RedisNil ELSE lastAnalysis
    /\ lastIngest' = NoExchange
    /\ UNCHANGED <<metricsCh, window, gauges, locals, http, stalled, hist>>

\* lines 200-218: method is the request's method, ok whether GET reaches the store
HandleAnalyze(method, ok) ==
    /\ analyzeResp' = AnalyzeReply(method, ok)
    /\ lastIngest' = NoExchange
    /\ UNCHANGED <<metricsCh, store, gauges, locals, http, stalled, hist>>

(* ------------------------------ workers ------------------------------- *)

\* one pending store call holds up every worker
RunningSerial(w) == stalled = {}

\* lines 88-92: every worker is a goroutine of its own; only its own
\* pending store call holds it up
Running(w) == w \notin stalled

Goto(w, label) == pc' = [pc EXCEPT ![w] = label]

\* the iteration of w ends: back to the receive of line 95
EndIteration(w) ==
    /\ Goto(w, "recv")
    /\ m' = [m EXCEPT ![w] = NoMetric]
    /\ values' = [values EXCEPT ![w] = <<>>]
    /\ anal' = [anal EXCEPT ![w] = NoAnalysis]
    /\ failedHeld' = [failedHeld EXCEPT ![w] = FALSE]
    /\ finished' = finished + 1
    /\ overtaken' = [overtaken EXCEPT ![w] = 0]

\* return in the place of continue: the worker goroutine ends
OnStoreErrorReturn(w) ==
    /\ Goto(w, "exit")
    /\ m' = [m EXCEPT ![w] = NoMetric]
    /\ values' = [values EXCEPT ![w] = <<>>]
    /\ anal' = [anal EXCEPT ![w] = NoAnalysis]
    /\ failedHeld' = [failedHeld EXCEPT ![w] = FALSE]
    /\ finished' = finished + 1
    /\ overtaken' = [overtaken EXCEPT ![w] = 0]

\* lines 98, 102, 108: continue, on the error of a store call
OnStoreError(w) == EndIteration(w)

\* a receive that yields the newest value in the channel
ReceivedNewest(ch) == ch[Len(ch)]

\* line 95: the value a receive yields is the oldest one in the channel
Received(ch) == Head(ch)

\* m declared outside the goroutines: one variable for every worker
ReceiveShared(w) ==
    /\ pc[w] = "recv"
    /\ Running(w)
    /\ Silent
    /\ metricsCh # <<>>
    /\ m' = [v \in Workers |-> Received(metricsCh).metric]
    /\ metricsCh' = Tail(metricsCh)
    /\ dequeued' = dequeued + 1
    /\ Goto(w, "push")
    /\ UNCHANGED <<store, gauges, values, anal, http, stalled>>
    /\ UNCHANGED <<admitted, pushes, recent, persisted, trimmed, failedHeld, finished>>
    /\ UNCHANGED <<overtaken, untrimmed, anomalous>>

\* line 95: for m := range s.metricsCh
Receive(w) ==
    /\ pc[w] = "recv"
    /\ Running(w)
    /\ Silent
    /\ metricsCh # <<>>
    /\ m' = [m EXCEPT ![w] = Received(metricsCh).metric]
    /\ metricsCh' = Tail(metricsCh)
    /\ dequeued' = dequeued + 1
    /\ Goto(w, "push")
    /\ UNCHANGED <<store, gauges, values, anal, http, stalled>>
    /\ UNCHANGED <<admitted, pushes, recent, persisted, trimmed, failedHeld, finished>>
    /\ UNCHANGED <<overtaken, untrimmed, anomalous>>

\* RPUSH in the place of LPUSH
PushBack(list, rps) == list \o <<FormatFloat(rps)>>

\* line 96: the list LPUSH rps_window m.RPS leaves
PushFront(list, rps) == RedisLPush(list, FormatFloat(rps))

\* lines 96-99: LPUSH rps_window m.RPS; on an error, continue
LPush(w, ok) ==
    /\ pc[w] = "push"
    /\ Running(w)
    /\ Silent
    /\ UNCHANGED <<metricsCh, lastAnalysis, gauges, http, stalled>>
    /\ UNCHANGED <<admitted, dequeued, persisted, trimmed>>
    /\ UNCHANGED <<untrimmed, anomalous>>
    /\ IF ok
       THEN /\ window' = PushFront(window, m[w].RPS)
            /\ overtaken' = [v \in Workers |->
                                IF v # w /\ pc[v] \in {"trim", "range"}
                                THEN overtaken[v] + 1 ELSE overtaken[v]]
            /\ pushes' = pushes + 1
            /\ recent' = SubSeq(<<m[w].RPS>> \o recent, 1,
                                 Min(windowSize, Len(recent) + 1))
            /\ Goto(w, "trim")
            /\ UNCHANGED <<m, values, anal, failedHeld, finished>>
       ELSE /\ OnStoreError(w)
            /\ UNCHANGED <<window, pushes, recent>>

\* LTRIM rps_window windowSize -1, which drops the newest entries
TrimmedWindowTail(list) == RedisLTrim(list, windowSize, Len(list) - 1)

\* LTRIM rps_window 0 -1, which keeps every entry
TrimmedWindowWhole(list) == RedisLTrim(list, 0, Len(list) - 1)

\* LTRIM rps_window 0 windowSize
TrimmedWindowOffByOne(list) == RedisLTrim(list, 0, windowSize)

\* line 100: the list LTRIM rps_window 0 windowSize-1 leaves
TrimmedWindow(list) == RedisLTrim(list, 0, windowSize - 1)

\* lines 100-103; on an error, continue
LTrim(w, ok) ==
    /\ pc[w] = "trim"
    /\ Running(w)
    /\ Silent
    /\ UNCHANGED <<metricsCh, lastAnalysis, gauges, http, stalled>>
    /\ UNCHANGED <<admitted, dequeued, pushes, recent, persisted>>
    /\ UNCHANGED anomalous
    /\ IF ok
       THEN /\ window' = TrimmedWindow(window)
            /\ trimmed' = TRUE
            /\ untrimmed' = 0
            /\ Goto(w, "range")
            /\ UNCHANGED <<m, values, anal, failedHeld, finished, overtaken>>
       ELSE /\ OnStoreError(w)
            /\ untrimmed' = untrimmed + 1
            /\ UNCHANGED <<window, trimmed>>

\* LRANGE rps_window 0 windowSize
SnapshotOffByOne(list) == RedisLRange(list, 0, windowSize)

\* LRANGE rps_window 1 windowSize
SnapshotBelowHead(list) == RedisLRange(list, 1, windowSize)

\* line 105: the reply of LRANGE rps_window 0 windowSize-1
Snapshot(list) == RedisLRange(list, 0, windowSize - 1)

\* lines 105-154: read the snapshot and compute the Analysis from it;
\* on an error, continue
LRange(w, ok) ==
    /\ pc[w] = "range"
    /\ Running(w)
    /\ Silent
    /\ UNCHANGED <<metricsCh, store, gauges, http, stalled>>
    /\ UNCHANGED <<admitted, dequeued, pushes, recent, persisted, trimmed>>
    /\ UNCHANGED untrimmed
    /\ IF ok
       THEN /\ \E now \in NowValues :
                 /\ values' = [values EXCEPT ![w] = Snapshot(window)]
                 /\ anal' = [anal EXCEPT ![w] =
                                 ComputeAnalysis(Snapshot(window), m[w], now)]
            /\ anomalous' = IF anal'[w].IsAnomaly THEN anomalous + 1 ELSE anomalous
            /\ Goto(w, "set")
            /\ UNCHANGED <<m, failedHeld, finished, overtaken>>
       ELSE /\ OnStoreError(w)
            /\ UNCHANGED anomalous

\* SET last_analysis b NX: the first value written stays
SetLastIfUnset(w, ok) ==
    /\ pc[w] = "set"
    /\ Running(w)
    /\ Silent
    /\ UNCHANGED <<metricsCh, window, gauges, http, stalled>>
    /\ UNCHANGED <<m, values, anal, admitted, dequeued, pushes, recent, trimmed, finished>>
    /\ UNCHANGED <<overtaken, untrimmed, anomalous>>
    /\ Goto(w, "avg")
    /\ IF ok /\ lastAnalysis = RedisNil
       THEN /\ lastAnalysis' = Marshal(anal[w])
            /\ persisted' = Marshal(anal[w])
            /\ UNCHANGED failedHeld
       ELSE /\ failedHeld' = [failedHeld EXCEPT ![w] = ~ok]
            /\ UNCHANGED <<lastAnalysis, persisted>>

\* lines 156-159: SET last_analysis b 0; an error is logged and the
\* iteration goes on to line 161
SetLast(w, ok) ==
    /\ pc[w] = "set"
    /\ Running(w)
    /\ Silent
    /\ UNCHANGED <<metricsCh, window, gauges, http, stalled>>
    /\ UNCHANGED <<m, values, anal, admitted, dequeued, pushes, recent, trimmed, finished>>
    /\ UNCHANGED <<overtaken, untrimmed, anomalous>>
    /\ Goto(w, "avg")
    /\ IF ok
       THEN /\ lastAnalysis' = Marshal(anal[w])
            /\ persisted' = Marshal(anal[w])
            /\ UNCHANGED failedHeld
       ELSE /\ failedHeld' = [failedHeld EXCEPT ![w] = TRUE]
            /\ UNCHANGED <<lastAnalysis, persisted>>

\* currentRollingAvg.Set(m.RPS)
SetRollingAvgToRps(w) ==
    /\ pc[w] = "avg"
    /\ Running(w)
    /\ Silent
    /\ currentRollingAvg' = m[w].RPS
    /\ Goto(w, "flag")
    /\ UNCHANGED <<metricsCh, store, anomalyTotal, anomalyRate, http>>
    /\ UNCHANGED <<m, values, anal, stalled, hist>>

\* line 161: currentRollingAvg.Set(mean)
SetRollingAvg(w) ==
    /\ pc[w] = "avg"
    /\ Running(w)
    /\ Silent
    /\ currentRollingAvg' = anal[w].RollingAvg
    /\ Goto(w, "flag")
    /\ UNCHANGED <<metricsCh, store, anomalyTotal, anomalyRate, http>>
    /\ UNCHANGED <<m, values, anal, stalled, hist>>

\* the anomaly flag without the anomaly counter
SetAnomalyFlagOnly(w) ==
    /\ pc[w] = "flag"
    /\ Running(w)
    /\ Silent
    /\ anomalyRate' = IF anal[w].IsAnomaly THEN 1 ELSE 0
    /\ EndIteration(w)
    /\ UNCHANGED <<metricsCh, store, currentRollingAvg, anomalyTotal, http, stalled>>
    /\ UNCHANGED <<admitted, dequeued, pushes, recent, persisted, trimmed>>
    /\ UNCHANGED <<untrimmed, anomalous>>

\* lines 162-167: the anomaly counter and the anomaly flag
SetAnomaly(w) ==
    /\ pc[w] = "flag"
    /\ Running(w)
    /\ Silent
    /\ IF anal[w].IsAnomaly
       THEN /\ anomalyTotal' = anomalyTotal + 1
            /\ anomalyRate' = 1
       ELSE /\ anomalyRate' = 0
            /\ UNCHANGED anomalyTotal
    /\ EndIteration(w)
    /\ UNCHANGED <<metricsCh, store, currentRollingAvg, http, stalled>>
    /\ UNCHANGED <<admitted, dequeued, pushes, recent, persisted, trimmed>>
    /\ UNCHANGED <<untrimmed, anomalous>>

\* lines 94-169: one step of worker w
Worker(w) ==
    \/ Receive(w)
    \/ \E ok \in BOOLEAN : LPush(w, ok)
    \/ \E ok \in BOOLEAN : LTrim(w, ok)
    \/ \E ok \in BOOLEAN : LRange(w, ok)
    \/ \E ok \in BOOLEAN : SetLast(w, ok)
    \/ SetRollingAvg(w)
    \/ SetAnomaly(w)

\* a store call of w, once issued, never returns (section 5 of the
\* specification: a stalled store call)
Stall(w) ==
    /\ stalled = {}
    /\ pc[w] \in {"push", "trim", "range", "set"}
    /\ stalled' = {w}
    /\ Silent
    /\ UNCHANGED <<metricsCh, store, gauges, locals, http, hist>>

\* ingestion and the worker pool
Pipeline ==
    \/ \E h \in Handlers, r \in Requests : HandleIngest(h, r)
    \/ \E h \in Handlers : IngestAccepted(h)
    \/ \E w \in Workers : Worker(w)

\* the whole service
Next ==
    \/ Pipeline
    \/ \E method \in Methods, ok \in BOOLEAN : HandleAnalyze(method, ok)

\* the pipeline with one store call that may never return
NextStall ==
    \/ Pipeline
    \/ \E w \in Workers : Stall(w)

\* the worker over a store whose every call succeeds
HealthyWorker(w) ==
    \/ Receive(w)
    \/ LPush(w, TRUE)
    \/ LTrim(w, TRUE)
    \/ LRange(w, TRUE)
    \/ SetLast(w, TRUE)
    \/ SetRollingAvg(w)
    \/ SetAnomaly(w)

\* the requests of a client that posts well-formed samples and stamps them
\* 1, 2, 3, ... as they are admitted
StampedRequests ==
    {[method |-> "POST", body |-> [b EXCEPT !.Timestamp = admitted + 1]] :
        b \in SampleBodies}

\* the pipeline over a healthy store, fed by that client
NextHealthy ==
    \/ \E h \in Handlers, r \in StampedRequests : HandleIngest(h, r)
    \/ \E h \in Handlers : IngestAccepted(h)
    \/ \E w \in Workers : HealthyWorker(w)

\* the windows and the triggering samples the statistics are applied to on
\* their own
StatSnapshots == UNION {[1..n -> StatTexts] : n \in 0..MaxSnapshot}

\* a worker that holds a sample and a snapshot, before line 111
HoldingSnapshot(w, entries, rps) ==
    /\ pc = [v \in Workers |-> IF v = w THEN "stats" ELSE "recv"]
    /\ m = [v \in Workers |-> IF v = w THEN Metric(0, F64Zero, rps) ELSE NoMetric]
    /\ values = [v \in Workers |-> IF v = w THEN entries ELSE <<>>]

\* lines 111-154: the worker computes the Analysis of the snapshot it holds
Analyse(w) ==
    /\ pc[w] = "stats"
    /\ Running(w)
    /\ Silent
    /\ \E now \in NowValues :
          anal' = [anal EXCEPT ![w] = ComputeAnalysis(values[w], m[w], now)]
    /\ anomalous' = IF anal'[w].IsAnomaly THEN anomalous + 1 ELSE anomalous
    /\ Goto(w, "set")
    /\ UNCHANGED <<metricsCh, store, gauges, m, values, http, stalled>>
    /\ UNCHANGED <<admitted, dequeued, pushes, recent, persisted, trimmed>>
    /\ UNCHANGED <<failedHeld, finished, overtaken, untrimmed>>

NextStats == \E w \in Workers : Analyse(w)

Spec == Init /\ [][Next]_vars

PipelineSpec == Init /\ [][Pipeline]_vars

\* the Go scheduler runs every goroutine that can take a step
Fairness == \A w \in Workers : WF_vars(Worker(w))

FairSpec == Init /\ [][Pipeline]_vars /\ Fairness

StallSpec == Init /\ [][NextStall]_vars /\ Fairness

\* main with any number of workers from one to NumWorkers
InitPool ==
    /\ NewService
    /\ \E n \in 1..NumWorkers : StartWorkers(n)

\* any number of workers from one to NumWorkers, over a healthy store
HealthySpec == InitPool /\ [][NextHealthy]_vars

\* one worker holds any window of at most MaxSnapshot entries and any
\* triggering sample
InitStats ==
    /\ NewService
    /\ \E entries \in StatSnapshots, t \in StatTexts :
          HoldingSnapshot(CHOOSE w \in Workers : TRUE, entries, DecodeFloat(t))

\* the statistics of every such window, for every triggering sample
StatsSpec == InitStats /\ [][NextStats]_vars

(* ------------------------------ properties ---------------------------- *)

Quiescent == \A h \in Handlers : hpc[h] = "idle"

Holding(w) == pc[w] # "recv"

\* the step is a successful LTRIM of worker w
TrimStep(w) == pc[w] = "trim" /\ pc'[w] = "range"

\* the step sends a sample on the channel
SendStep == admitted' # admitted

RejectStep == lastIngest'.status = 503

\* C1: a well-formed POST is enqueued exactly when the channel holds fewer
\* than QueueCap entries at the send, and is otherwise answered 503 without
\* being enqueued; the channel never holds more than QueueCap entries; no
\* send is rejected before more than QueueCap requests have been made.
C1_Admission ==
    /\ [](Len(metricsCh) <= QueueCap)
    /\ [](lastIngest.status = 503 => started > QueueCap)
    /\ [][ /\ SendStep =>
                /\ Len(metricsCh) < QueueCap
                /\ admitted' = admitted + 1
                /\ Len(metricsCh') = Len(metricsCh) + 1
                /\ SubSeq(metricsCh', 1, Len(metricsCh)) = metricsCh
                /\ \E h \in Handlers : hpc[h] = "idle" /\ hpc'[h] = "sent"
           /\ RejectStep =>
                /\ Len(metricsCh) = QueueCap
                /\ metricsCh' = metricsCh
                /\ admitted' = admitted
           /\ (lastIngest'.method = "POST" /\ lastIngest'.ok) =>
                lastIngest'.status \in {202, 503}
           /\ lastIngest'.status = 202 =>
                \E h \in Handlers : hpc[h] = "sent" /\ hpc'[h] = "idle"
           /\ lastIngest'.status \in {400, 405} =>
                ~(lastIngest'.method = "POST" /\ lastIngest'.ok) ]_vars

\* C1 witness: a send was rejected while QueueCap admitted samples fill the channel
C1_Witness ==
    /\ lastIngest.status = 503
    /\ admitted = QueueCap
    /\ Len(metricsCh) = QueueCap

\* C2: when a store call fails for a sample, the worker takes no further
\* step for that sample: it is back at the receive.
C2_AbandonedOnAnyFailure ==
    \A w \in Workers : failedHeld[w] => ~Holding(w)

\* C3 as stated: once a trim has succeeded, the window holds at most
\* windowSize entries in every later state.
C3_NeverAboveWAfterTrim ==
    trimmed => Len(window) <= windowSize

\* C3 as amended: in the state a successful trim leaves, the window holds at
\* most windowSize entries, whatever the workers did before.
C3_AtMostWRightAfterTrim ==
    [][\A w \in Workers : TrimStep(w) => Len(window') <= windowSize]_vars

\* C3 witness: a trim has just cut a window that held more than windowSize
\* entries down to windowSize
C3_Witness ==
    /\ trimmed
    /\ Len(window) = windowSize
    /\ pushes > windowSize
    /\ \E w \in Workers : pc[w] = "range"

\* the entries of the window that stand for the values vs
Formatted(vs) == [i \in 1..Len(vs) |-> FormatFloat(vs[i])]

\* C4: in the state a successful trim leaves, the window is exactly the
\* values of the most recent min(windowSize, pushes) pushes that took effect,
\* newest first.
C4_WindowIsMostRecentPushes ==
    [][\A w \in Workers : TrimStep(w) =>
            /\ Len(window') = Min(windowSize, pushes')
            /\ window' = Formatted(recent')]_vars

\* C4 witness: both workers have pushed, a trim has taken effect, and the
\* window holds two different values
C4_Witness ==
    /\ \A w \in Workers : pc[w] \in {"trim", "range"}
    /\ \E w \in Workers : pc[w] = "range"
    /\ pushes > windowSize
    /\ Len(window) >= 2
    /\ window[1] # window[2]

\* C5: the snapshot a worker holds never has more than windowSize entries,
\* and no Analysis, computed or persisted, has a count above windowSize.
C5_SnapshotAtMostW ==
    /\ \A w \in Workers :
         /\ Len(values[w]) <= windowSize
         /\ anal[w].Count <= windowSize
    /\ lastAnalysis # RedisNil => lastAnalysis[1][2] <= windowSize

\* C5 witness: a worker holds a full snapshot while the window holds more
\* than windowSize entries
C5_Witness ==
    \E w \in Workers :
        /\ pc[w] = "set"
        /\ Len(values[w]) = windowSize
        /\ Len(window) > windowSize

\* C6: a read that reaches the store answers 204 exactly when no SET has
\* ever taken effect and otherwise 200 with the value of the last SET that
\* took effect; once a SET has taken effect that value is never lost again;
\* the read changes neither the store, the channel, the workers nor any
\* counter or gauge.
C6_ReadReturnsLastPersist ==
    /\ []((analyzeResp.method = "GET" /\ analyzeResp.ok) =>
            /\ analyzeResp.status = IF persisted = RedisNil THEN 204 ELSE 200
            /\ analyzeResp.body = persisted)
    /\ [][persisted # RedisNil => persisted' # RedisNil]_vars
    /\ [][analyzeResp' # NoResp =>
            UNCHANGED <<metricsCh, store, gauges, locals, http, hist>>]_vars

\* C6 witness: a read returns an Analysis over a full window
C6_Witness ==
    /\ analyzeResp.status = 200
    /\ analyzeResp.body = Marshal(ComputeAnalysis(Formatted(recent),
                Metric(5, DecodeFloat(<<"3", "4">>), DecodeFloat(<<"2", "0">>)), 7))
    /\ pushes > windowSize

\* C7: the k-th receive, over all workers, yields the k-th sample admitted:
\* the channel holds the admitted samples not yet received, oldest first,
\* and every receive takes the oldest one and removes it.
C7_FIFO ==
    /\ [](\A i \in 1..Len(metricsCh) : metricsCh[i].seq = dequeued + i)
    /\ [](dequeued + Len(metricsCh) = admitted)
    /\ [][\A w \in Workers : (pc[w] = "recv" /\ pc'[w] # "recv") =>
            /\ m'[w] = Head(metricsCh).metric
            /\ metricsCh' = Tail(metricsCh)
            /\ dequeued' = dequeued + 1]_vars

\* C7 witness: both workers hold a sample while another one waits in the channel
C7_Witness ==
    /\ \A w \in Workers : Holding(w)
    /\ m[1] # m[2]
    /\ metricsCh # <<>>

\* C8: under fair scheduling of the workers, every admitted sample is
\* received and its iteration ends (at its last statement or at its first
\* failing store call); a store error leaves the worker at the receive.
C8_EveryAdmittedSampleFinishes ==
    /\ \A i \in 1..MaxRequests : (admitted >= i) ~> (finished >= i)
    /\ [][\A w \in Workers : (finished' # finished /\ pc'[w] # pc[w]) =>
            pc'[w] = "recv"]_vars

\* C8 witness: every request was admitted and finished, two of the samples
\* were abandoned at their push and one was persisted
C8_Witness ==
    /\ finished = MaxRequests
    /\ pushes = 1
    /\ persisted # RedisNil

\* C9: with one store call that never returns, every admitted sample but the
\* one the stalled worker holds is still finished, and /ingest can always
\* take its next step.
C9_StallHoldsOneWorker ==
    /\ \A i \in 1..MaxRequests :
         (admitted >= i) ~> (finished + Cardinality(stalled) >= i)
    /\ [](\A h \in Handlers :
            /\ hpc[h] = "sent" => ENABLED IngestAccepted(h)
            /\ (hpc[h] = "idle" /\ started < MaxRequests) =>
                 \A r \in Requests : ENABLED HandleIngest(h, r))

\* C9 witness: a worker is stalled in its push and every other sample
\* has been pushed and finished
C9_Witness ==
    /\ \E w \in stalled : pc[w] = "push"
    /\ admitted = MaxRequests
    /\ finished = MaxRequests - 1
    /\ pushes = MaxRequests - 1

\* C10: ingest_requests_total counts the accepted samples and nothing else:
\* it equals the number of samples sent whenever no handler is between its
\* send and its increment, it moves by one with each 202 and never with
\* another answer, the 202 needs no worker step, and no worker step writes
\* an answer or moves the counter.
C10_IngestCounter ==
    /\ [](Quiescent => ingestTotal = admitted)
    /\ [](ingestTotal + Cardinality({h \in Handlers : hpc[h] = "sent"}) = admitted)
    /\ [](\A h \in Handlers : hpc[h] = "sent" => ENABLED IngestAccepted(h))
    /\ [][ /\ ingestTotal' # ingestTotal =>
                (ingestTotal' = ingestTotal + 1 /\ lastIngest'.status = 202)
           /\ lastIngest'.status = 202 => ingestTotal' = ingestTotal + 1
           /\ lastIngest'.status \in {400, 405, 503} => ingestTotal' = ingestTotal
           /\ (\E w \in Workers : pc'[w] # pc[w]) =>
                (lastIngest' = NoExchange /\ ingestTotal' = ingestTotal) ]_vars

\* C10 witness: a request has just been rejected, no handler is in flight,
\* and the counter stands at the number of accepted samples
C10_Witness ==
    /\ Quiescent
    /\ lastIngest.status = 503
    /\ ingestTotal = QueueCap
    /\ started = QueueCap + 1

(* --------------------- the statistics on their own --------------------- *)

\* a worker that has computed the Analysis of the snapshot it holds
Computed(w) == pc[w] \in {"set", "avg", "flag"}

\* k > 1 entries, all the same text
Identical(entries) ==
    Len(entries) > 1 /\ \A i \in 1..Len(entries) : entries[i] = entries[1]

\* C11: the statistics yield zScore = 0 and isAnomaly = false whenever
\* count <= 1 or stdDev = 0; with count = 0 also mean = 0 and stdDev = 0;
\* with k > 1 identical entries stdDev is 0 and zScore is 0.
C11_DegenerateWindowsScoreZero ==
    \A w \in Workers : Computed(w) =>
        /\ (anal[w].Count <= 1 \/ anal[w].StdDev = F64Zero)
              => (anal[w].ZScore = F64Zero /\ ~anal[w].IsAnomaly)
        /\ anal[w].Count = 0
              => (anal[w].RollingAvg = F64Zero /\ anal[w].StdDev = F64Zero)
        /\ Identical(values[w])
              => (anal[w].StdDev = F64Zero /\ anal[w].ZScore = F64Zero)

\* a decimal text without a fraction, and every entry of a snapshot such
IsWhole(text) == PointAt(text) = 0

AllWhole(entries) == \A i \in 1..Len(entries) : IsWhole(entries[i])

\* the sum of whole entries, as an integer
RECURSIVE ExactSum(_)
ExactSum(entries) ==
    IF entries = <<>> THEN 0
    ELSE DigitsValue(Head(entries), 0) + ExactSum(Tail(entries))

\* count^2 times the sum of the squared deviations of whole entries from
\* their mean total / count, as an integer
RECURSIVE ExactSqDev(_, _, _)
ExactSqDev(entries, count, total) ==
    IF entries = <<>> THEN 0
    ELSE (count * DigitsValue(Head(entries), 0) - total) ^ 2
         + ExactSqDev(Tail(entries), count, total)

\* count > 1, stdDev > 0 and (trigger - mean)^2 > zThreshold^2 * stdDev^2 in
\* exact arithmetic, both sides multiplied by count^3
ExactAnomaly(entries, trigger) ==
    /\ Len(entries) > 1
    /\ ExactSqDev(entries, Len(entries), ExactSum(entries)) > 0
    /\ Len(entries) * (Len(entries) * trigger - ExactSum(entries)) ^ 2
          > zThreshold ^ 2 * ExactSqDev(entries, Len(entries), ExactSum(entries))

\* C12: for every window and every triggering rps, count is the number of
\* entries, mean is sum / count, and isAnomaly is true exactly when
\* count > 1, stdDev > 0 and (trigger - mean)^2 > threshold^2 * stdDev^2 for
\* the population standard deviation; stated for the windows and triggers
\* that are whole numbers, whose sums float64 holds exactly.
C12_AnomalyExactlyAboveThreshold ==
    \A w \in Workers :
        (Computed(w) /\ AllWhole(values[w]) /\ IsWhole(FormatFloat(m[w].RPS))) =>
            /\ anal[w].Count = Len(values[w])
            /\ anal[w].Count > 0 =>
                  anal[w].RollingAvg = F64Div(F64FromInt(ExactSum(values[w])),
                                              F64FromInt(Len(values[w])))
            /\ anal[w].IsAnomaly
                  <=> ExactAnomaly(values[w], DigitsValue(FormatFloat(m[w].RPS), 0))

\* the rps of the sample worker w holds is one of the entries of its snapshot
TriggerInSnapshot(w) ==
    \E i \in 1..Len(values[w]) : DecodeFloat(values[w][i]) = m[w].RPS

\* C20: when the triggering rps is one of the entries of the snapshot it is
\* scored against, isAnomaly = true implies count >= 6.
C20_NoAnomalyBelowSixSamples ==
    \A w \in Workers :
        (Computed(w) /\ TriggerInSnapshot(w) /\ anal[w].IsAnomaly)
            => anal[w].Count >= 6

(* ------------------------- the workers together ------------------------ *)

\* the pool has one worker only
Solo == \A w \in Workers : w # 1 => pc[w] = "off"

\* C13: the snapshot a worker reads is the window its own push left, below
\* the values other workers pushed after it: its own value comes after
\* overtaken[w] of those (when the trims have left it in the window), and
\* with two workers a snapshot is reached whose head is the value of a
\* sample dequeued after the worker's own.
C13_SnapshotBelowLaterPushes ==
    \A w \in Workers : Computed(w) =>
        /\ Solo => overtaken[w] = 0
        /\ overtaken[w] < windowSize =>
              /\ Len(values[w]) > overtaken[w]
              /\ values[w][overtaken[w] + 1] = FormatFloat(m[w].RPS)

\* worker w has scored its sample against a snapshot headed by the value
\* of the sample that worker v dequeued later and still holds
C13_Witness ==
    \E w, v \in Workers :
        /\ w # v /\ Computed(w) /\ pc[v] \in {"trim", "range"}
        /\ overtaken[w] = 1
        /\ m[v].Timestamp > m[w].Timestamp
        /\ values[w][1] = FormatFloat(m[v].RPS)
        /\ values[w][1] # FormatFloat(m[w].RPS)

\* the value of the JSON field key of a marshalled Analysis
Field(b, key) == b[CHOOSE i \in 1..Len(b) : b[i][1] = key][2]

\* worker w has persisted its Analysis and not yet ended the iteration
Persisted(w) == pc[w] \in {"avg", "flag"}

\* every worker waits on the empty channel and no request is in flight
Drained ==
    /\ Quiescent
    /\ metricsCh = <<>>
    /\ \A w \in Workers : pc[w] \in {"recv", "off"}

\* C14: the cache holds the Analysis of whichever SET landed last.  With a
\* single worker and no failure that is the last sample processed: while
\* the worker is past its SET it is the sample it holds, otherwise the
\* last one it finished.  (Samples are stamped 1, 2, ... as admitted.)
C14_SoloCacheIsLastProcessed ==
    /\ lastAnalysis # RedisNil =>
          Field(lastAnalysis, "lastTimestamp") \in 1..dequeued
    /\ Solo =>
          /\ lastAnalysis = RedisNil <=> (finished = 0 /\ ~Persisted(1))
          /\ Persisted(1) => lastAnalysis = Marshal(anal[1])
          /\ lastAnalysis # RedisNil =>
                Field(lastAnalysis, "lastTimestamp")
                    = IF Persisted(1) THEN dequeued ELSE finished

\* two workers have processed every admitted sample and the cache holds
\* the Analysis of a sample admitted before another one
C14_Witness ==
    /\ ~Solo
    /\ Drained
    /\ finished = admitted
    /\ admitted >= 2
    /\ Field(lastAnalysis, "lastTimestamp") < admitted

\* the marshalled Analysis b carries the rps, cpu and timestamp of metric
CarriesSample(b, metric) ==
    /\ Field(b, "lastRps") = metric.RPS
    /\ Field(b, "lastCpu") = metric.CPU
    /\ Field(b, "lastTimestamp") = metric.Timestamp

\* the marshalled Analysis b carries the rps and the cpu of a well-formed
\* request body
CarriesRpsCpu(b) ==
    \E g \in GoodBodies :
        /\ Field(b, "lastRps") = DecodeFloat(g.RPS)
        /\ Field(b, "lastCpu") = DecodeFloat(g.CPU)

\* C15: a worker's sample is the one its receive took from the channel, it
\* stays the worker's until the iteration ends, and every Analysis written
\* to the cache carries the rps, cpu and timestamp of the sample of the
\* worker that writes it; so the read after a single sample was admitted
\* and processed without failure returns that sample's rps and cpu.
C15_CacheCarriesTriggeringSample ==
    /\ [][\A w \in Workers :
            /\ (pc[w] = "recv" /\ pc'[w] = "push")
                  => (metricsCh # <<>> /\ m'[w] = Head(metricsCh).metric)
            /\ (Holding(w) /\ pc'[w] \notin {"recv", "exit"}) => m'[w] = m[w]]_vars
    /\ [][lastAnalysis' # lastAnalysis =>
            \E w \in Workers :
                /\ pc[w] = "set" /\ pc'[w] = "avg"
                /\ CarriesSample(lastAnalysis', m[w])]_vars
    /\ []((/\ analyzeResp.method = "GET" /\ analyzeResp.ok
           /\ admitted = 1 /\ finished = 1 /\ pushes = 1
           /\ persisted # RedisNil) =>
            /\ analyzeResp.status = 200
            /\ Field(analyzeResp.body, "lastRps") = recent[1]
            /\ CarriesRpsCpu(analyzeResp.body))

\* a read returns the rps and cpu of the only sample admitted, processed
\* without failure
C15_Witness ==
    /\ analyzeResp.status = 200
    /\ admitted = 1 /\ finished = 1 /\ pushes = 1
    /\ Field(analyzeResp.body, "lastRps") = recent[1]
    /\ CarriesRpsCpu(analyzeResp.body)

\* 1 for an anomaly, 0 otherwise
Flag(a) == IF a.IsAnomaly THEN 1 ELSE 0

\* C16: the iteration that reaches line 161 sets the rolling-average gauge
\* to the mean it computed, and at lines 162-167 the anomaly flag to 1 for
\* an anomaly and to 0 otherwise, incrementing the anomaly counter by one
\* exactly for an anomaly; the counter never decreases, it lags the number
\* of anomalous Analyses by those of the workers still before line 162,
\* and equals it when the pipeline is drained.
C16_GaugesFollowEachIteration ==
    /\ [][\A w \in Workers :
            /\ (pc[w] = "avg" /\ pc'[w] = "flag") =>
                  currentRollingAvg' = anal[w].RollingAvg
            /\ (pc[w] = "flag" /\ pc'[w] = "recv") =>
                  /\ anomalyRate' = Flag(anal[w])
                  /\ anomalyTotal' = anomalyTotal + Flag(anal[w])]_vars
    /\ [][anomalyTotal' # anomalyTotal =>
            /\ anomalyTotal' = anomalyTotal + 1
            /\ \E w \in Workers :
                  pc[w] = "flag" /\ pc'[w] = "recv" /\ anal[w].IsAnomaly]_vars
    /\ [](anomalyTotal
            + Cardinality({w \in Workers : Computed(w) /\ anal[w].IsAnomaly})
          = anomalous)
    /\ [](Drained => anomalyTotal = anomalous)

\* the pipeline is drained after an anomaly was counted
C16_Witness ==
    /\ Drained
    /\ finished = admitted
    /\ anomalous >= 1
    /\ anomalyTotal = anomalous

\* the gauges show the mean and the anomaly flag of the cached Analysis
GaugesAgreeWithCache ==
    /\ currentRollingAvg = Field(lastAnalysis, "rollingAvg")
    /\ anomalyRate = IF Field(lastAnalysis, "isAnomaly") THEN 1 ELSE 0

\* C17 as stated: whenever the pipeline is drained after at least one
\* sample was processed with no store failure, the gauges agree with the
\* cache, for any number of workers.
C17_GaugesAgreeForAnyPool ==
    (Drained /\ finished >= 1) => GaugesAgreeWithCache

\* C17 as amended: so it is when the pool has a single worker.
C17_GaugesAgreeForOneWorker ==
    (Solo /\ Drained /\ finished >= 1) => GaugesAgreeWithCache

\* a single worker has processed two samples and the pipeline is drained
C17_Witness ==
    /\ Solo
    /\ Drained
    /\ finished = admitted
    /\ finished >= 2
    /\ GaugesAgreeWithCache

(* ------------------------------ the window ----------------------------- *)

\* the workers that have pushed and not yet trimmed
Untrimmed == {w \in Workers : pc[w] = "trim"}

\* C18: the window holds at most windowSize entries, plus one for each
\* worker that has pushed and not yet trimmed, plus one for each trim that
\* failed since the last trim that took effect: a failed trim leaves the
\* window as it is, and the next trim that succeeds cuts it to windowSize.
\* While no trim has failed that is windowSize plus the workers between
\* push and trim, at most windowSize + NumWorkers.
C18_WindowBoundedByUntrimmedPushes ==
    /\ [](Len(window) <= windowSize + Cardinality(Untrimmed) + untrimmed)
    /\ [](untrimmed = 0 => Len(window) <= windowSize + NumWorkers)
    /\ [][\A w \in Workers :
            (pc[w] = "trim" /\ pc'[w] = "recv") =>
                (window' = window /\ untrimmed' = untrimmed + 1)]_vars
    /\ [][\A w \in Workers :
            (pc[w] = "trim" /\ pc'[w] = "range") =>
                (Len(window') <= windowSize /\ untrimmed' = 0)]_vars

\* a trim has failed: the surplus entry is still in the window and no
\* worker is about to trim
C18_Witness ==
    /\ untrimmed >= 1
    /\ Untrimmed = {}
    /\ Len(window) = windowSize + 1

\* C19: every Analysis a worker computes in the pipeline has count >= 1:
\* from its own push to its read the window is never empty, whatever the
\* other workers push and trim in between, so its snapshot is not empty
\* and every entry of it parses.
C19_SnapshotNeverEmpty ==
    \A w \in Workers :
        /\ pc[w] \in {"trim", "range"} => window # <<>>
        /\ Computed(w) =>
              /\ values[w] # <<>>
              /\ anal[w].Count = Len(values[w])
              /\ anal[w].Count >= 1

\* a worker has scored its sample after windowSize later pushes and a trim
\* removed its own value from the window
C19_Witness ==
    \E w \in Workers :
        /\ Computed(w)
        /\ overtaken[w] >= windowSize
        /\ trimmed
        /\ anal[w].Count >= 1


====
